---------------------------- MODULE Spec2Model ----------------------------
(***************************************************************************)
(* Model of the GET /nearby-places handler (src/unnamed/part_000, lines    *)
(* 116-236) and of the outcomes of getNearbyPlaces                         *)
(* (src/src/getNearbyPoi.js, lines 60-112).                                *)
(*                                                                         *)
(* Every await of the handler is one step of a request: the Redis and      *)
(* MongoDB operations are atomic single-key operations of external stores, *)
(* and requests interleave freely between them.  Every store operation     *)
(* has a second action for its failure (the promise rejects).              *)
(*                                                                         *)
(* Coordinates are integers in units of 0.0001 degree; quantized           *)
(* coordinates are integers in units of 0.001 degree.                      *)
(*                                                                         *)
(* pointInPolygon, sortByCategory and the filter of getNearbyPlaces        *)
(* (src/src/getNearbyPoi.js, lines 12-52 and 102-111) are operators; the   *)
(* specifications SpecPip and SpecLookup apply them to bounded inputs.     *)
(***************************************************************************)
EXTENDS Integers, Sequences, FiniteSets, TLC

\* ------------------------------------------------------------------ bounds
\* concurrent handler invocations (request slots)
NumReq == 2
\* client identities
NumIPs == 1
\* requests started in one behaviour of Spec
MaxStarts == 3
\* quantized cells the requests of Spec fall into
NumCells == 1
\* store operations that fail in one behaviour of Spec
MaxFailures == 1
\* requests started in one behaviour of SpecSeq
SeqStarts == 6
\* quantized cells the requests of SpecSeq fall into
SeqCells == 6

\* ------------------------------------------------------ program constants
\* parseInt(currentCount) >= 5
UniqueLimit == 5
\* { EX: 60 * 60 }
QuotaTTL == 3600
\* { EX: 60 * 60 * 6 }
CacheTTL == 21600
\* a key without expiry (what INCR creates on a missing key)
NoExpiry == 0
\* roundCord(coord, 3): coordinates carry 4 decimals, keys carry 3
RoundStep == 10

Req == 1..NumReq
\* client identities (the ip of a request)
IPs == 1..NumIPs
\* the client of an earlier quota window
EarlierIP == 0

Null == <<>>
Some(v) == <<v>>

Abs(n) == IF n < 0 THEN 0 - n ELSE n

\* roundCord(coord, 3) = parseFloat(coord.toFixed(3)): nearest multiple of
\* 0.001, the sign kept.  (A last digit of exactly 5 rounds by the binary
\* value of the double in JavaScript; the inputs below hold no such value.)
roundCord(coord) ==
    LET m == (Abs(coord) + (RoundStep \div 2)) \div RoundStep
    IN IF coord < 0 THEN 0 - m ELSE m

\* the fixed longitude of the model's requests (-0.0007, quantized to -0.001)
Lon == 0 - 7

\* precise coordinates: one per cell (0.0012, 0.0022, ...)
CoordsOf(cells) == {<<(RoundStep * c) + 2, Lon>> : c \in 1..cells}

\* the coordinates of the concurrent runs
PreciseCoords == CoordsOf(NumCells)
\* the coordinates of the sequential runs: a second one (0.0006) in cell 1
SeqCoords == CoordsOf(SeqCells) \cup {<<6, Lon>>}

Quantized(coords) == {<<roundCord(c[1]), roundCord(c[2])>> : c \in coords}

\* every cell of either specification
AllCells == Quantized(PreciseCoords \cup SeqCoords)

\* ------------------------------------------------------------- data values
\* the categorized result of a lookup whose two providers answered
sortedPOI ==
    [supermarket |-> "pois", pharmacy |-> "pois", restaurant |-> "pois",
     fastfood |-> "pois", hotel |-> "pois"]

\* bodies of the POI provider's 2xx answers: a feature list, no feature list
\* with an error field, no feature list and no error field
PoiBodies ==
    {[features |-> "list"],
     [error |-> "providerError"],
     [type |-> "FeatureCollection"]}

HasField(rec, f) == f \in DOMAIN rec

\* JSON.stringify of a response envelope or of a MongoDB document: Date and
\* ObjectId values become strings, everything else keeps its value
JsonValue(v) ==
    [f \in DOMAIN v |->
        IF f \in {"createdAt", "expiresAt"} THEN "isoString"
        ELSE IF f = "_id" THEN "hexString"
        ELSE v[f]]

Stringify(v) == [json |-> JsonValue(v)]
\* JSON.parse
Parse(s) == s.json

\* const nearbyPlaces = { forCoordinates, requestedBy, POIbyCategory }
NearbyPlaces(lat, lon, ip, poi) ==
    [forCoordinates |-> <<lat, lon>>, requestedBy |-> ip, POIbyCategory |-> poi]

\* the document insertOne stores: { ...generalizedPlaces, createdAt, expiresAt }
\* and the _id the driver adds
SavedPlace(np, q) ==
    [forCoordinates |-> np.forCoordinates, requestedBy |-> np.requestedBy,
     POIbyCategory |-> np.POIbyCategory, generalCoordinates |-> q,
     createdAt |-> "Date", expiresAt |-> "Date", _id |-> "ObjectId"]

VARIABLES
    redisCache,   \* Redis keys nearby-<lat>-<lon>: Null or Some([val, ex])
    redisQuota,   \* Redis keys unique-requests-<ip>: Null or Some([val, ex])
    mongo,        \* savedPlaces by generalCoordinates: [first, n], the first
                  \* document inserted (the one findOne returns) and how many
    pc,           \* each handler invocation's position
    rq,           \* each invocation's request: ip, lat, lon
    loc,          \* each invocation's locals: mdbData, currentCount, sortedPoi
    resp,         \* each invocation's response: Null or Some([status, body])
    ops,          \* the external operations each invocation has performed
    started,      \* requests started so far
    failures,     \* store operations (Redis, MongoDB) that have failed so far
    admitted,     \* per ip: requests that passed checkUniqueRequestLimit in this window
    lookups,      \* per ip: requests that went on to call getNearbyPlaces in this window
    overlap,      \* per ip: a request passed the check while another one of the
                  \* same ip was between its check and the end of its increment
    polygon,      \* pointInPolygon / getNearbyPlaces: the vertex sequence (IsochronePolygon)
    point,        \* pointInPolygon: the point
    inside,       \* the result of pointInPolygon(point, polygon): Null or Some(boolean)
    insideClosed, \* its result for the ring with the first vertex repeated at the end
    features,     \* getNearbyPlaces: geoApifyPOIRes.data.features
    filteredPOI,  \* getNearbyPlaces: Null or Some(the filtered list)
    poiBuckets,   \* getNearbyPlaces: the five arrays of its sortedPOI
    cursor        \* the POIs of filteredPOI that forEach has passed to sortByCategory

\* the handler and the two stores
handlerVars == <<redisCache, redisQuota, mongo, pc, rq, loc, resp, ops, started,
                 failures, admitted, lookups, overlap>>
\* the inputs, locals and results of pointInPolygon and getNearbyPlaces
geoVars == <<polygon, point, inside, insideClosed, features, filteredPOI,
             poiBuckets, cursor>>

vars == <<handlerVars, geoVars>>

quotaGhost == <<admitted, lookups, overlap>>

NoRequest == [ip |-> EarlierIP, lat |-> 0, lon |-> 0]
NoLocals == [mdbData |-> Null, currentCount |-> Null, sortedPoi |-> Null]

roundedLat(r) == roundCord(rq[r].lat)
roundedLon(r) == roundCord(rq[r].lon)
\* the cache key `nearby-${roundedLat}-${roundedLon}` and the query
\* { generalCoordinates: [roundedLat, roundedLon] } name the same pair
cacheKey(r) == <<roundedLat(r), roundedLon(r)>>

InFlight(r) == pc[r] \notin {"idle", "done", "hung"}

\* the collection is read by findOne and written by insertOne only: of the
\* documents of one generalCoordinates the model keeps the first and the count
NoPlaces == [first |-> Null, n |-> 0]

\* insertOne(doc)
InsertOne(places, doc) ==
    [first |-> IF places.n = 0 THEN Some(doc) ELSE places.first, n |-> places.n + 1]

\* the invocation a new request gets: the slots only name the invocations,
\* so the lowest free one is taken
FreeSlots == {r \in Req : ~InFlight(r)}
NextSlot == CHOOSE r \in FreeSlots : \A r2 \in FreeSlots : r <= r2

\* what earlier requests of the running quota window have left of a client's
\* quota: nothing, or all but one unique request used (unique-requests-<ip>
\* holds 4, set with its one-hour expiry by the first of them)
UsedBefore == {0, UniqueLimit - 1}

QuotaAfter(used) ==
    IF used = 0 THEN Null ELSE Some([val |-> used, ex |-> QuotaTTL])

\* no call of pointInPolygon or of the filter of getNearbyPlaces is under way
GeoIdle ==
    /\ polygon = <<>>
    /\ point = <<0, 0>>
    /\ inside = Null
    /\ insideClosed = Null
    /\ features = <<>>
    /\ filteredPOI = Null
    /\ poiBuckets = [b \in {} |-> <<>>]
    /\ cursor = 0

\* no request in flight, the cache tiers empty, each client's quota as the
\* earlier requests of its window left it
Init ==
    /\ redisCache = [q \in AllCells |-> Null]
    /\ \E used \in [IPs -> UsedBefore] :
          /\ redisQuota = [ip \in IPs |-> QuotaAfter(used[ip])]
          /\ admitted = used
          /\ lookups = used
    /\ mongo = [q \in AllCells |-> NoPlaces]
    /\ pc = [r \in Req |-> "idle"]
    /\ rq = [r \in Req |-> NoRequest]
    /\ loc = [r \in Req |-> NoLocals]
    /\ resp = [r \in Req |-> Null]
    /\ ops = [r \in Req |-> {}]
    /\ started = 0
    /\ failures = 0
    /\ overlap = [ip \in IPs |-> FALSE]
    /\ GeoIdle

\* res.status(s).json(b); the handler returns and its locals are gone
Respond(r, s, b) ==
    /\ resp' = [resp EXCEPT ![r] = Some([status |-> s, body |-> b])]
    /\ pc' = [pc EXCEPT ![r] = "done"]
    /\ loc' = [loc EXCEPT ![r] = NoLocals]

\* one more store operation fails
Failed ==
    /\ failures < MaxFailures
    /\ failures' = failures + 1

\* the invocation performs op, and op succeeds
Did(r, op) == ops' = [ops EXCEPT ![r] = @ \cup {op}]
\* the invocation performs op, and the promise of op rejects
Rejected(r, op, tag) == ops' = [ops EXCEPT ![r] = @ \cup {op, tag}]

\* catch (error) { res.status(500).json({ error: "Internal server error" }) }
InternalError(r) == Respond(r, 500, [error |-> "Internal server error"])

\* a request arrives: ip, lat, lon are read and the keys derived
Start(r, ip, c) ==
    /\ ~InFlight(r)
    /\ pc' = [pc EXCEPT ![r] = "cacheGet"]
    /\ rq' = [rq EXCEPT ![r] = [ip |-> ip, lat |-> c[1], lon |-> c[2]]]
    /\ loc' = [loc EXCEPT ![r] = NoLocals]
    /\ resp' = [resp EXCEPT ![r] = Null]
    /\ ops' = [ops EXCEPT ![r] = {}]
    /\ started' = started + 1
    /\ UNCHANGED <<geoVars, redisCache, redisQuota, mongo, failures, quotaGhost>>

\* mutant of FastRead: the fast tier's entry is ignored
FastRead_Miss(r) ==
    /\ pc' = [pc EXCEPT ![r] = "mongoFind"]
    /\ UNCHANGED <<resp, loc>>

\* const cachedData = await redisClient.get(cacheKey); if (cachedData) ...
FastRead(r) ==
    IF redisCache[cacheKey(r)] # Null
    THEN /\ Respond(r, 200, Parse(redisCache[cacheKey(r)][1].val))
    ELSE /\ pc' = [pc EXCEPT ![r] = "mongoFind"]
         /\ UNCHANGED <<resp, loc>>

CacheGet(r) ==
    /\ pc[r] = "cacheGet"
    /\ Did(r, "redisGet")
    /\ FastRead(r)
    /\ UNCHANGED <<geoVars, redisCache, redisQuota, mongo, rq, started, failures, quotaGhost>>

\* the body of the framework's own error page (no JSON object)
FrameworkError == [html |-> "Internal Server Error"]

\* what becomes of the rejected promise of the handler itself: Express 4
\* ignores the promise an async handler returns (no response is ever sent),
\* Express 5 passes the rejection to its error handler, which answers 500
UncaughtOutcomes == {"ignored", "errorHandler"}

\* the get at line 154 rejects: it is outside every try, so the handler's
\* promise rejects
CacheGetFail(r, outcome) ==
    /\ pc[r] = "cacheGet"
    /\ Failed
    /\ Rejected(r, "redisGet", "redisGetRejected")
    /\ IF outcome = "ignored"
       THEN /\ pc' = [pc EXCEPT ![r] = "hung"]
            /\ loc' = [loc EXCEPT ![r] = NoLocals]
            /\ UNCHANGED resp
       ELSE Respond(r, 500, FrameworkError)
    /\ UNCHANGED <<geoVars, redisCache, redisQuota, mongo, rq, started, quotaGhost>>

\* the savedPlaces document findOne({ generalCoordinates }) returns: the first
\* one in insertion order, or null
FindOne(q) == mongo[q].first

\* connectToDatabase() and findOne succeed (lines 163-175)
MongoFind(r) ==
    /\ pc[r] = "mongoFind"
    /\ Did(r, "mongoFind")
    /\ loc' = [loc EXCEPT ![r].mdbData = FindOne(cacheKey(r))]
    /\ pc' = [pc EXCEPT ![r] =
                IF FindOne(cacheKey(r)) # Null THEN "promote" ELSE "limitGet"]
    /\ UNCHANGED <<geoVars, redisCache, redisQuota, mongo, rq, resp, started, failures, quotaGhost>>

\* mutant of AfterMongoReadError: the rejection reaches the outer catch
AfterMongoReadError_Surface(r) == InternalError(r)

\* where the handler goes on after catch (mongoError) at line 176
AfterMongoReadError(r) ==
    /\ pc' = [pc EXCEPT ![r] = "limitGet"]
    /\ UNCHANGED <<resp, loc>>

\* connectToDatabase() or findOne rejects: catch (mongoError), go on as on a miss
MongoFindFail(r) ==
    /\ pc[r] = "mongoFind"
    /\ Failed
    /\ Rejected(r, "mongoFind", "mongoFindRejected")
    /\ AfterMongoReadError(r)
    /\ UNCHANGED <<geoVars, redisCache, redisQuota, mongo, rq, started, quotaGhost>>

\* mutant of PromotedEntry: the set is given no expiry
PromotedEntry_NoExpiry(mdbData) == Some([val |-> Stringify(mdbData), ex |-> NoExpiry])

\* redisClient.set(cacheKey, JSON.stringify(mdbData), { EX: 60 * 60 * 6 })
PromotedEntry(mdbData) == Some([val |-> Stringify(mdbData), ex |-> CacheTTL])

\* MongoDB hit: the document is written to Redis and returned (lines 168-175)
Promote(r) ==
    /\ pc[r] = "promote"
    /\ Did(r, "redisSetPromote")
    /\ redisCache' = [redisCache EXCEPT ![cacheKey(r)] = PromotedEntry(loc[r].mdbData[1])]
    /\ Respond(r, 200, loc[r].mdbData[1])
    /\ UNCHANGED <<geoVars, redisQuota, mongo, rq, started, failures, quotaGhost>>

\* the set at line 170 rejects inside the try of the MongoDB read: the same
\* catch (mongoError) takes it and the handler goes on to the quota check
PromoteFail(r) ==
    /\ pc[r] = "promote"
    /\ Failed
    /\ Rejected(r, "redisSetPromote", "redisSetPromoteRejected")
    /\ pc' = [pc EXCEPT ![r] = "limitGet"]
    /\ UNCHANGED <<geoVars, redisCache, redisQuota, mongo, rq, loc, resp, started, quotaGhost>>

\* mutant of checkUniqueRequestLimit: > instead of >=
checkUniqueRequestLimit_Off(currentCount) ==
    ~(currentCount # Null /\ currentCount[1].val > UniqueLimit)

\* checkUniqueRequestLimit: !(currentCount && parseInt(currentCount) >= 5)
checkUniqueRequestLimit(currentCount) ==
    ~(currentCount # Null /\ currentCount[1].val >= UniqueLimit)

\* the requests of ip between their check and the end of their increment
InQuotaSection(ip) == {r \in Req : rq[r].ip = ip /\ pc[r] \in {"incrGet", "incrWrite"}}

\* res.status(429).json({ error, code: "UNIQUE_REQUESTS_LIMIT_EXCEEDED" })
TooManyUnique ==
    [error |-> "Too many unique location requests. Maximum 5 new locations per hour.",
     code |-> "UNIQUE_REQUESTS_LIMIT_EXCEEDED"]

\* const canMakeUniqueRequest = await checkUniqueRequestLimit(ip) (lines 184-192)
LimitGet(r) ==
    LET ip == rq[r].ip
        can == checkUniqueRequestLimit(redisQuota[ip])
    IN /\ pc[r] = "limitGet"
       /\ Did(r, "quotaGet")
       /\ IF can
          THEN /\ pc' = [pc EXCEPT ![r] = "incrGet"]
               /\ UNCHANGED <<resp, loc>>
          ELSE Respond(r, 429, TooManyUnique)
       /\ admitted' = [admitted EXCEPT ![ip] = IF can THEN @ + 1 ELSE @]
       /\ overlap' = [overlap EXCEPT ![ip] = @ \/ (can /\ InQuotaSection(ip) # {})]
       /\ UNCHANGED <<geoVars, redisCache, redisQuota, mongo, rq, started, lookups, failures>>

\* the get of checkUniqueRequestLimit rejects: the outer catch answers 500
LimitGetFail(r) ==
    /\ pc[r] = "limitGet"
    /\ Failed
    /\ Rejected(r, "quotaGet", "quotaGetRejected")
    /\ InternalError(r)
    /\ UNCHANGED <<geoVars, redisCache, redisQuota, mongo, rq, started, quotaGhost>>

\* incrementUniqueRequestCount: const currentCount = await redisClient.get(uniqueKey)
IncrGet(r) ==
    /\ pc[r] = "incrGet"
    /\ Did(r, "quotaGet2")
    /\ loc' = [loc EXCEPT ![r].currentCount = redisQuota[rq[r].ip]]
    /\ pc' = [pc EXCEPT ![r] = "incrWrite"]
    /\ UNCHANGED <<geoVars, redisCache, redisQuota, mongo, rq, resp, started, failures, quotaGhost>>

IncrGetFail(r) ==
    /\ pc[r] = "incrGet"
    /\ Failed
    /\ Rejected(r, "quotaGet2", "quotaGet2Rejected")
    /\ InternalError(r)
    /\ UNCHANGED <<geoVars, redisCache, redisQuota, mongo, rq, started, quotaGhost>>

\* Redis INCR: a missing key counts from 0 and gets no expiry, an existing
\* key keeps its expiry
RedisIncr(cur) ==
    IF cur = Null THEN Some([val |-> 1, ex |-> NoExpiry])
    ELSE Some([val |-> cur[1].val + 1, ex |-> cur[1].ex])

\* mutant of QuotaWrite: the key is set to 1 whether or not it exists
QuotaWrite_Reset(cur, currentCount) == Some([val |-> 1, ex |-> QuotaTTL])

\* if (currentCount) incr(uniqueKey) else set(uniqueKey, 1, { EX: 60 * 60 })
QuotaWrite(cur, currentCount) ==
    IF currentCount # Null THEN RedisIncr(cur)
    ELSE Some([val |-> 1, ex |-> QuotaTTL])

\* the write of incrementUniqueRequestCount; getNearbyPlaces is called next
IncrWrite(r) ==
    LET ip == rq[r].ip
    IN /\ pc[r] = "incrWrite"
       /\ Did(r, "quotaWrite")
       /\ redisQuota' = [redisQuota EXCEPT ![ip] = QuotaWrite(@, loc[r].currentCount)]
       /\ pc' = [pc EXCEPT ![r] = "poi"]
       /\ lookups' = [lookups EXCEPT ![ip] = @ + 1]
       /\ UNCHANGED <<geoVars, redisCache, mongo, rq, loc, resp, started, admitted, overlap,
                       failures>>

IncrWriteFail(r) ==
    /\ pc[r] = "incrWrite"
    /\ Failed
    /\ Rejected(r, "quotaWrite", "quotaWriteRejected")
    /\ InternalError(r)
    /\ UNCHANGED <<geoVars, redisCache, redisQuota, mongo, rq, started, quotaGhost>>

\* const nearbyPlaces = { forCoordinates: [lat, lon], requestedBy: ip, POIbyCategory }
nearbyPlaces(r) == NearbyPlaces(rq[r].lat, rq[r].lon, rq[r].ip, loc[r].sortedPoi[1])

\* res.status(500).json({ error: sortedPoi.error, code: "API_ERROR" })
ApiError(sortedPoi) == [error |-> sortedPoi.error, code |-> "API_ERROR"]

\* the handler after getNearbyPlaces returned sortedPoi (lines 198-209)
LookupReturn(r, sortedPoi) ==
    IF HasField(sortedPoi, "error")
    THEN Respond(r, 500, ApiError(sortedPoi))
    ELSE /\ loc' = [loc EXCEPT ![r].sortedPoi = Some(sortedPoi)]
         /\ pc' = [pc EXCEPT ![r] = "cacheSet"]
         /\ UNCHANGED resp

\* getNearbyPlaces: the POI provider answers 2xx with body; without a feature
\* list the body is returned as it is (lines 71-84)
Poi(r, body) ==
    /\ pc[r] = "poi"
    /\ Did(r, "poi")
    /\ IF HasField(body, "features")
       THEN /\ pc' = [pc EXCEPT ![r] = "iso"]
            /\ UNCHANGED <<loc, resp>>
       ELSE LookupReturn(r, body)
    /\ UNCHANGED <<geoVars, redisCache, redisQuota, mongo, rq, started, failures, quotaGhost>>

\* axios.get of the POI provider rejects (network error, non-2xx status):
\* getNearbyPlaces throws and the outer catch answers 500
PoiThrow(r) ==
    /\ pc[r] = "poi"
    /\ Rejected(r, "poi", "poiRejected")
    /\ InternalError(r)
    /\ UNCHANGED <<geoVars, redisCache, redisQuota, mongo, rq, started, failures, quotaGhost>>

\* the isochrone provider answers with a polygon; the POIs are filtered and
\* categorized (lines 87-111)
Iso(r) ==
    /\ pc[r] = "iso"
    /\ Did(r, "iso")
    /\ LookupReturn(r, sortedPOI)
    /\ UNCHANGED <<geoVars, redisCache, redisQuota, mongo, rq, started, failures, quotaGhost>>

\* return { error: "Error getting mb isochrone:" + error }
IsochroneError == [error |-> "Error getting mb isochrone:"]

\* the isochrone call fails or its answer holds no polygon (lines 94-99)
IsoError(r) ==
    /\ pc[r] = "iso"
    /\ Did(r, "iso")
    /\ LookupReturn(r, IsochroneError)
    /\ UNCHANGED <<geoVars, redisCache, redisQuota, mongo, rq, started, failures, quotaGhost>>

\* redisClient.set(cacheKey, JSON.stringify(nearbyPlaces), { EX: 60 * 60 * 6 })
FreshEntry(np) == Some([val |-> Stringify(np), ex |-> CacheTTL])

CacheSet(r) ==
    /\ pc[r] = "cacheSet"
    /\ Did(r, "redisSet")
    /\ redisCache' = [redisCache EXCEPT ![cacheKey(r)] = FreshEntry(nearbyPlaces(r))]
    /\ pc' = [pc EXCEPT ![r] = "mongoInsert"]
    /\ UNCHANGED <<geoVars, redisQuota, mongo, rq, loc, resp, started, failures, quotaGhost>>

\* the set at line 212 rejects: the outer catch answers 500
CacheSetFail(r) ==
    /\ pc[r] = "cacheSet"
    /\ Failed
    /\ Rejected(r, "redisSet", "redisSetRejected")
    /\ InternalError(r)
    /\ UNCHANGED <<geoVars, redisCache, redisQuota, mongo, rq, started, quotaGhost>>

\* insertOne stores the document; res.status(200).json(nearbyPlaces)
MongoInsert(r) ==
    /\ pc[r] = "mongoInsert"
    /\ Did(r, "mongoInsert")
    /\ mongo' = [mongo EXCEPT ![cacheKey(r)] =
                    InsertOne(@, SavedPlace(nearbyPlaces(r), cacheKey(r)))]
    /\ Respond(r, 200, nearbyPlaces(r))
    /\ UNCHANGED <<geoVars, redisCache, redisQuota, rq, started, failures, quotaGhost>>

\* the response after catch (mongoError) at line 227
AfterMongoWriteError(r) == Respond(r, 200, nearbyPlaces(r))

\* connectToDatabase() or insertOne rejects: catch (mongoError), answer all the same
MongoInsertFail(r) ==
    /\ pc[r] = "mongoInsert"
    /\ Failed
    /\ Rejected(r, "mongoInsert", "mongoInsertRejected")
    /\ AfterMongoWriteError(r)
    /\ UNCHANGED <<geoVars, redisCache, redisQuota, mongo, rq, started, quotaGhost>>

\* a nearby-... key reaches its expiry and Redis drops it
ExpireCache(q) ==
    /\ redisCache[q] # Null
    /\ redisCache' = [redisCache EXCEPT ![q] = Null]
    /\ UNCHANGED <<geoVars, redisQuota, mongo, pc, rq, loc, resp, ops, started, failures,
                    quotaGhost>>

\* a unique-requests-... key that carries an expiry reaches it: the quota
\* window of that ip ends
ExpireQuota(ip) ==
    /\ redisQuota[ip] # Null
    /\ redisQuota[ip][1].ex # NoExpiry
    /\ redisQuota' = [redisQuota EXCEPT ![ip] = Null]
    /\ admitted' = [admitted EXCEPT ![ip] = 0]
    /\ lookups' = [lookups EXCEPT ![ip] = 0]
    /\ overlap' = [overlap EXCEPT ![ip] = FALSE]
    /\ UNCHANGED <<geoVars, redisCache, mongo, pc, rq, loc, resp, ops, started, failures>>

\* the steps of a handler invocation in which every store operation succeeds,
\* with every outcome of the two providers
Step(r) ==
    \/ CacheGet(r)
    \/ MongoFind(r)
    \/ Promote(r)
    \/ LimitGet(r)
    \/ IncrGet(r)
    \/ IncrWrite(r)
    \/ \E body \in PoiBodies : Poi(r, body)
    \/ PoiThrow(r)
    \/ Iso(r)
    \/ IsoError(r)
    \/ CacheSet(r)
    \/ MongoInsert(r)

\* the steps in which a MongoDB operation fails
MongoFail(r) ==
    \/ MongoFindFail(r)
    \/ MongoInsertFail(r)

\* the steps in which a Redis operation fails
RedisFail(r) ==
    \/ \E outcome \in UncaughtOutcomes : CacheGetFail(r, outcome)
    \/ PromoteFail(r)
    \/ LimitGetFail(r)
    \/ IncrGetFail(r)
    \/ IncrWriteFail(r)
    \/ CacheSetFail(r)

Next ==
    \/ \E ip \in IPs, c \in PreciseCoords :
          /\ started < MaxStarts
          /\ FreeSlots # {}
          /\ Start(NextSlot, ip, c)
    \/ \E r \in Req : Step(r)
    \/ \E r \in Req : MongoFail(r)
    \/ \E r \in Req : RedisFail(r)
    \/ \E q \in AllCells : ExpireCache(q)
    \/ \E ip \in IPs : ExpireQuota(ip)

\* concurrent requests, store failures, key expiry
Spec == Init /\ [][Next]_vars

\* a savedPlaces document of an earlier lookup whose Redis entry has expired
OldPlace == SavedPlace(NearbyPlaces(6, Lon, EarlierIP, sortedPOI), <<1, 0 - 1>>)

InitSeq ==
    /\ redisCache = [q \in AllCells |-> Null]
    /\ redisQuota = [ip \in IPs |-> Null]
    /\ mongo \in {[q \in AllCells |-> NoPlaces],
                  [q \in AllCells |->
                      IF q = <<1, 0 - 1>> THEN InsertOne(NoPlaces, OldPlace) ELSE NoPlaces]}
    /\ pc = [r \in Req |-> "idle"]
    /\ rq = [r \in Req |-> NoRequest]
    /\ loc = [r \in Req |-> NoLocals]
    /\ resp = [r \in Req |-> Null]
    /\ ops = [r \in Req |-> {}]
    /\ started = 0
    /\ failures = 0
    /\ admitted = [ip \in IPs |-> 0]
    /\ lookups = [ip \in IPs |-> 0]
    /\ overlap = [ip \in IPs |-> FALSE]
    /\ GeoIdle

NextSeq ==
    \/ \E ip \in IPs, c \in SeqCoords :
          /\ started < SeqStarts
          /\ FreeSlots = Req
          /\ Start(NextSlot, ip, c)
    \/ \E r \in Req : Step(r)

\* requests one at a time, within one hour (no key expires), Redis answering
SpecSeq == InitSeq /\ [][NextSeq]_vars

\* ------------------------------------------------- src/src/getNearbyPoi.js
\* vertices of one polygon
MaxVertices == 4
\* POIs of one provider answer
MaxPois == 3

\* plane coordinates are integers: vertices on an even grid, points on and
\* off it, inside and outside of every bounding box
VertexCoords == {0, 2, 4}
Vertices == VertexCoords \X VertexCoords
PointCoords == {0 - 1, 2, 3, 5}
Points == PointCoords \X PointCoords

\* the vertex sequences of at most n vertices
PolygonsUpTo(n) == UNION {[1..k -> Vertices] : k \in 0..n}

\* mutant of PrevIndex: the first iteration pairs the first vertex with itself
PrevIndex_NoWrap(i, n) == IF i = 1 THEN 1 ELSE i - 1

\* for (let i = 0, j = polygon.length - 1; i < polygon.length; j = i++):
\* the j of iteration i (indices from 1)
PrevIndex(i, n) == IF i = 1 THEN n ELSE i - 1

\* mutant of Intersect: the edge is not required to straddle the line of y
Intersect_NoStraddle(x, y, xi, yi, xj, yj) ==
    LET d == yj - yi
        n == (xj - xi) * (y - yi)
    IN IF d > 0 THEN (x - xi) * d < n
       ELSE IF d < 0 THEN (x - xi) * d > n
       ELSE FALSE

\* yi > y !== yj > y && x < ((xj - xi) * (y - yi)) / (yj - yi) + xi
\* The first conjunct makes yj - yi nonzero; the comparison is multiplied
\* through by it.  (On integer coordinates of this size the double quotient
\* is either exact or further from every integer than its rounding error.)
Intersect(x, y, xi, yi, xj, yj) ==
    /\ (yi > y) # (yj > y)
    /\ LET d == yj - yi
           n == (xj - xi) * (y - yi)
       IN IF d > 0 THEN (x - xi) * d < n ELSE (x - xi) * d > n

RECURSIVE EdgeLoop(_, _, _, _)
\* the loop of pointInPolygon from iteration i on, with the value of inside
\* before it
EdgeLoop(pt, poly, i, ins) ==
    IF i > Len(poly) THEN ins
    ELSE LET j == PrevIndex(i, Len(poly))
             hit == Intersect(pt[1], pt[2], poly[i][1], poly[i][2],
                              poly[j][1], poly[j][2])
         IN EdgeLoop(pt, poly, i + 1, IF hit THEN ~ins ELSE ins)

\* pointInPolygon(point, polygon): let inside = false; the loop; return inside
pointInPolygon(pt, poly) == EdgeLoop(pt, poly, 1, FALSE)

\* the raw category tags the POI request asks for, and one it does not
Tags ==
    {"commercial.supermarket", "healthcare.pharmacy", "catering.restaurant",
     "catering.fast_food", "accommodation.hotel", "tourism.sights"}

\* poi.properties.categories of the provider's POIs: no tag of the five, one,
\* and several in an order other than the order of the rules
TagArrays ==
    {<<"tourism.sights">>,
     <<"commercial.supermarket">>,
     <<"healthcare.pharmacy", "commercial.supermarket">>,
     <<"accommodation.hotel", "catering.restaurant">>,
     <<"catering.fast_food", "accommodation.hotel">>,
     <<"accommodation.hotel">>}

\* poi.geometry.coordinates of the provider's POIs
PoiCoords == {<<2, 2>>, <<1, 3>>, <<5, 5>>}

\* a feature of geoApifyPOIRes.data.features
Feature(c, tags) ==
    [geometry |-> [coordinates |-> c], properties |-> [categories |-> tags]]

ProviderPois == {Feature(c, tags) : c \in PoiCoords, tags \in TagArrays}

\* the feature lists of at most n POIs
FeatureListsUpTo(n) == UNION {[1..k -> ProviderPois] : k \in 0..n}

\* mapboxIsochrone.geometry.coordinates[0]: a square ring given closed, a
\* triangle given open
IsochronePolygons ==
    {<<<<0, 0>>, <<0, 4>>, <<4, 4>>, <<4, 0>>, <<0, 0>>>>,
     <<<<0, 0>>, <<2, 4>>, <<4, 0>>>>}

\* const sortedPOI = { supermarket: [], pharmacy: [], restaurant: [], ... }
EmptyBuckets ==
    [supermarket |-> <<>>, pharmacy |-> <<>>, restaurant |-> <<>>,
     fastfood |-> <<>>, hotel |-> <<>>]

\* array.includes(x)
Includes(arr, x) == \E i \in 1..Len(arr) : arr[i] = x

\* poi.properties.categories.push(label); appendTo[label].push(poi): the POI
\* object carries the pushed label, and the array holds that object
PushTo(appendTo, label, poi) ==
    LET labelled == [poi EXCEPT !.properties.categories = Append(@, label)]
    IN [poi |-> labelled, appendTo |-> [appendTo EXCEPT ![label] = Append(@, labelled)]]

\* mutant of sortByCategory: the pharmacy rule is tried before the supermarket rule
sortByCategory_PharmacyFirst(poi, poiCategories, appendTo) ==
    IF Includes(poiCategories, "healthcare.pharmacy")
    THEN PushTo(appendTo, "pharmacy", poi)
    ELSE IF Includes(poiCategories, "commercial.supermarket")
    THEN PushTo(appendTo, "supermarket", poi)
    ELSE IF Includes(poiCategories, "catering.restaurant")
    THEN PushTo(appendTo, "restaurant", poi)
    ELSE IF Includes(poiCategories, "catering.fast_food")
    THEN PushTo(appendTo, "fastfood", poi)
    ELSE IF Includes(poiCategories, "accommodation.hotel")
    THEN PushTo(appendTo, "hotel", poi)
    ELSE [poi |-> poi, appendTo |-> appendTo]

\* sortByCategory(poi, poiCategories, appendTo): the two objects it mutates,
\* poi and appendTo, as they are after the call (poiCategories is
\* poi.properties.categories, tested before the push)
sortByCategory(poi, poiCategories, appendTo) ==
    IF Includes(poiCategories, "commercial.supermarket")
    THEN PushTo(appendTo, "supermarket", poi)
    ELSE IF Includes(poiCategories, "healthcare.pharmacy")
    THEN PushTo(appendTo, "pharmacy", poi)
    ELSE IF Includes(poiCategories, "catering.restaurant")
    THEN PushTo(appendTo, "restaurant", poi)
    ELSE IF Includes(poiCategories, "catering.fast_food")
    THEN PushTo(appendTo, "fastfood", poi)
    ELSE IF Includes(poiCategories, "accommodation.hotel")
    THEN PushTo(appendTo, "hotel", poi)
    ELSE [poi |-> poi, appendTo |-> appendTo]

\* mutant of FilterByIsochrone: every POI is kept
FilterByIsochrone_All(feats, poly) == feats

\* features.filter((poi) => pointInPolygon(poi.geometry.coordinates, IsochronePolygon))
FilterByIsochrone(feats, poly) ==
    SelectSeq(feats, LAMBDA poi : pointInPolygon(poi.geometry.coordinates, poly))

\* no request has arrived: the handler and the stores as the sequential runs
\* find them
HandlerIdle ==
    /\ redisCache = [q \in AllCells |-> Null]
    /\ redisQuota = [ip \in IPs |-> Null]
    /\ mongo = [q \in AllCells |-> NoPlaces]
    /\ pc = [r \in Req |-> "idle"]
    /\ rq = [r \in Req |-> NoRequest]
    /\ loc = [r \in Req |-> NoLocals]
    /\ resp = [r \in Req |-> Null]
    /\ ops = [r \in Req |-> {}]
    /\ started = 0
    /\ failures = 0
    /\ admitted = [ip \in IPs |-> 0]
    /\ lookups = [ip \in IPs |-> 0]
    /\ overlap = [ip \in IPs |-> FALSE]

\* a point and a vertex sequence, pointInPolygon not yet called
InitPip ==
    /\ HandlerIdle
    /\ polygon \in PolygonsUpTo(MaxVertices)
    /\ point \in Points
    /\ inside = Null
    /\ insideClosed = Null
    /\ features = <<>>
    /\ filteredPOI = Null
    /\ poiBuckets = [b \in {} |-> <<>>]
    /\ cursor = 0

\* pointInPolygon(point, polygon)
TestPoint ==
    /\ inside = Null
    /\ inside' = Some(pointInPolygon(point, polygon))
    /\ UNCHANGED <<handlerVars, polygon, point, insideClosed, features, filteredPOI,
                    poiBuckets, cursor>>

\* pointInPolygon(point, [...polygon, polygon[0]])
TestPointClosed ==
    /\ insideClosed = Null
    /\ Len(polygon) >= 1
    /\ insideClosed' = Some(pointInPolygon(point, Append(polygon, polygon[1])))
    /\ UNCHANGED <<handlerVars, polygon, point, inside, features, filteredPOI,
                    poiBuckets, cursor>>

NextPip ==
    \/ TestPoint
    \/ TestPointClosed

\* calls of pointInPolygon
SpecPip == InitPip /\ [][NextPip]_vars

\* both providers have answered: a feature list and an isochrone ring
InitLookup ==
    /\ HandlerIdle
    /\ polygon \in IsochronePolygons
    /\ point = <<0, 0>>
    /\ inside = Null
    /\ insideClosed = Null
    /\ features \in FeatureListsUpTo(MaxPois)
    /\ filteredPOI = Null
    /\ poiBuckets = EmptyBuckets
    /\ cursor = 0

\* const filteredPOI = geoApifyPOIRes.data.features.filter(...)
FilterPois ==
    /\ filteredPOI = Null
    /\ filteredPOI' = Some(FilterByIsochrone(features, polygon))
    /\ UNCHANGED <<handlerVars, polygon, point, inside, insideClosed, features,
                    poiBuckets, cursor>>

\* one iteration of filteredPOI.forEach: sortByCategory(poi,
\* poi.properties.categories, sortedPOI); the array holds the mutated object
Categorize ==
    /\ filteredPOI # Null
    /\ cursor < Len(filteredPOI[1])
    /\ LET poi == filteredPOI[1][cursor + 1]
           after == sortByCategory(poi, poi.properties.categories, poiBuckets)
       IN /\ poiBuckets' = after.appendTo
          /\ filteredPOI' = Some([filteredPOI[1] EXCEPT ![cursor + 1] = after.poi])
    /\ cursor' = cursor + 1
    /\ UNCHANGED <<handlerVars, polygon, point, inside, insideClosed, features>>

NextLookup ==
    \/ FilterPois
    \/ Categorize

\* the filter and the categorization of getNearbyPlaces (lines 102-111)
SpecLookup == InitLookup /\ [][NextLookup]_vars

\* ------------------------------------------------------------------ claims
Done(r) == pc[r] = "done"
Status(r) == resp[r][1].status
Body(r) == resp[r][1].body

\* the envelope a fresh lookup of request r answers with, whatever the
\* lookup returned as POIbyCategory
IsOwnEnvelope(r, body) ==
    /\ DOMAIN body = {"forCoordinates", "requestedBy", "POIbyCategory"}
    /\ body.forCoordinates = <<rq[r].lat, rq[r].lon>>
    /\ body.requestedBy = rq[r].ip

\* the operations on the quota counter
QuotaOps == {"quotaGet", "quotaGet2", "quotaWrite"}
\* the rejections of Redis operations
RedisRejections ==
    {"redisGetRejected", "redisSetPromoteRejected", "quotaGetRejected",
     "quotaGet2Rejected", "quotaWriteRejected", "redisSetRejected"}

\* C1 as stated: under any interleaving, at most 5 requests of one client
\* pass checkUniqueRequestLimit and go on to call getNearbyPlaces within one
\* quota window.
C1_AtMostFiveLookups ==
    \A ip \in IPs : lookups[ip] <= UniqueLimit

\* C1 as amended: at most 5 requests of one client go on to call
\* getNearbyPlaces within one quota window, unless one of that client's
\* requests passed the check while another one was between its own check
\* and the end of its increment.
C1_AtMostFiveUnlessOverlap ==
    \A ip \in IPs : lookups[ip] <= UniqueLimit \/ overlap[ip]

\* five lookups done in the window without any overlap, and a request denied
C1_Witness ==
    \E r \in Req :
        /\ Done(r)
        /\ Status(r) = 429
        /\ lookups[rq[r].ip] = UniqueLimit
        /\ ~overlap[rq[r].ip]

\* C2: requests of one client one at a time, each for a coordinate in
\* neither tier, within one hour: a request is denied (429,
\* UNIQUE_REQUESTS_LIMIT_EXCEEDED, getNearbyPlaces not called) exactly when
\* five were admitted before it, and every admitted one calls getNearbyPlaces,
\* whatever the earlier lookups returned.
C2_SixthDenied ==
    /\ \A ip \in IPs : admitted[ip] <= UniqueLimit /\ lookups[ip] <= admitted[ip]
    /\ \A r \in Req :
          (Done(r) /\ "quotaGet" \in ops[r]) =>
              IF Status(r) = 429
              THEN /\ admitted[rq[r].ip] = UniqueLimit
                   /\ lookups[rq[r].ip] = UniqueLimit
                   /\ Body(r).code = "UNIQUE_REQUESTS_LIMIT_EXCEEDED"
                   /\ "poi" \notin ops[r]
              ELSE "poi" \in ops[r]

\* five lookups succeeded for five different cells, and the sixth
\* cache-missing request is denied
C2_Witness ==
    /\ Cardinality({q \in AllCells : redisCache[q] # Null}) = UniqueLimit
    /\ \E r \in Req :
          /\ Done(r)
          /\ Status(r) = 429
          /\ redisCache[cacheKey(r)] = Null
          /\ mongo[cacheKey(r)].n = 0

\* C3: a request whose read of the fast tier or of the durable tier returned
\* an entry performs no operation on the quota counter and is answered 200,
\* never 429.
C3_CacheHitBypassesQuota ==
    \A r \in Req :
        /\ "redisSetPromote" \in ops[r] =>
              /\ ops[r] \cap QuotaOps = {}
              /\ Done(r) => Status(r) = 200
        /\ (Done(r) /\ ops[r] = {"redisGet"}) => Status(r) = 200

\* C4: a request answered from the durable tier has written that document to
\* the fast tier under its cache key with the 6-hour expiry, and a request
\* that finds a promoted entry in the fast tier is answered with it and reads
\* nothing else.
C4_PromotionServesNextFromFast ==
    \A r \in Req :
        LET e == redisCache[cacheKey(r)]
        IN /\ (Done(r) /\ "redisSetPromote" \in ops[r]) =>
                 /\ Status(r) = 200
                 /\ HasField(Body(r), "generalCoordinates")
                 /\ e = Some([val |-> Stringify(Body(r)), ex |-> CacheTTL])
           /\ (/\ pc[r] \notin {"idle", "cacheGet"}
               /\ e # Null
               /\ HasField(Parse(e[1].val), "generalCoordinates")
               /\ "redisSetPromote" \notin ops[r]) =>
                 /\ Done(r)
                 /\ ops[r] = {"redisGet"}
                 /\ Status(r) = 200
                 /\ Body(r) = Parse(e[1].val)

\* a request for another precise coordinate of the cell is answered from the
\* fast tier with the promoted document
C4_Witness ==
    \E r \in Req :
        /\ Done(r)
        /\ ops[r] = {"redisGet"}
        /\ HasField(Body(r), "generalCoordinates")
        /\ Body(r).generalCoordinates = cacheKey(r)
        /\ Body(r).forCoordinates # <<rq[r].lat, rq[r].lon>>

\* C5: a request that completed a successful fresh lookup has stored its
\* envelope in the fast tier, and a following request for the same quantized
\* coordinate is answered with that stored envelope after reading the fast
\* tier only (no durable read, no provider call).
C5_FreshEntryServedFromFast ==
    \A r \in Req :
        LET e == redisCache[cacheKey(r)]
        IN /\ (Done(r) /\ "redisSet" \in ops[r]) =>
                 /\ Status(r) = 200
                 /\ IsOwnEnvelope(r, Body(r))
                 /\ e = Some([val |-> Stringify(Body(r)), ex |-> CacheTTL])
           /\ (/\ pc[r] \notin {"idle", "cacheGet"}
               /\ e # Null
               /\ ~HasField(Parse(e[1].val), "generalCoordinates")
               /\ "redisSet" \notin ops[r]) =>
                 /\ Done(r)
                 /\ ops[r] = {"redisGet"}
                 /\ Status(r) = 200
                 /\ Body(r) = Parse(e[1].val)

\* a request for the second precise coordinate of cell 1 is answered from
\* the fast tier with the envelope of the first one's lookup
C5_Witness ==
    \E r \in Req :
        /\ Done(r)
        /\ ops[r] = {"redisGet"}
        /\ ~HasField(Body(r), "generalCoordinates")
        /\ Body(r).POIbyCategory = sortedPOI
        /\ Body(r).forCoordinates # <<rq[r].lat, rq[r].lon>>
        /\ roundCord(Body(r).forCoordinates[1]) = roundedLat(r)

\* C6: a rejected findOne leaves the request where a miss leaves it (on the
\* way to the quota check, nothing sent), and the error never shows in the
\* response; a rejected insertOne is followed by the 200 with the fresh result.
C6_DurableFailureAbsorbed ==
    \A r \in Req :
        /\ "mongoFindRejected" \in ops[r] =>
              /\ pc[r] \notin {"mongoFind", "promote", "hung"}
              /\ "redisSetPromote" \notin ops[r]
              /\ (pc[r] = "limitGet" => resp[r] = Null)
              /\ (Done(r) /\ Status(r) = 500 /\ ~HasField(Body(r), "code")) =>
                    ops[r] \cap (RedisRejections \cup {"poiRejected"}) # {}
              /\ (Done(r) /\ "mongoInsert" \in ops[r]) =>
                    (Status(r) = 200 /\ IsOwnEnvelope(r, Body(r)))
        /\ "mongoInsertRejected" \in ops[r] =>
              /\ Done(r)
              /\ Status(r) = 200
              /\ IsOwnEnvelope(r, Body(r))

\* the durable tier held the entry, its read failed, and the request was
\* answered 200 with its own fresh lookup
C6_Witness ==
    \E r \in Req :
        /\ Done(r)
        /\ "mongoFindRejected" \in ops[r]
        /\ Status(r) = 200
        /\ mongo[cacheKey(r)].n = 2

\* C7: a request whose fast-tier write of the fresh result was rejected is
\* answered 200 with the result envelope.
C7_FastWriteFailureNonFatal ==
    \A r \in Req :
        (Done(r) /\ "redisSetRejected" \in ops[r]) =>
            (Status(r) = 200 /\ IsOwnEnvelope(r, Body(r)))

\* which of the three error cases a response that is no 200 belongs to
ErrorCase(r) ==
    IF Status(r) = 429 THEN "quota"
    ELSE IF "poi" \in ops[r] /\ "poiRejected" \notin ops[r] /\ "iso" \notin ops[r]
         THEN "exhausted"
         ELSE "generic"

ErrorResponse(r) == Done(r) /\ Status(r) # 200

\* C8: every error response is {error, code}, and two error responses of
\* different cases (provider exhaustion, quota exceeded, generic failure)
\* carry different codes.
C8_ErrorCodesDistinguish ==
    /\ \A r \in Req :
          ErrorResponse(r) => DOMAIN Body(r) = {"error", "code"}
    /\ \A r1, r2 \in Req :
          (/\ ErrorResponse(r1)
           /\ ErrorResponse(r2)
           /\ ErrorCase(r1) # ErrorCase(r2)
           /\ HasField(Body(r1), "code")
           /\ HasField(Body(r2), "code")) => Body(r1).code # Body(r2).code

\* C9: a request whose POI answer held no feature list never calls the
\* isochrone provider and is answered with an error object, never with 200.
C9_NoFeaturesIsError ==
    \A r \in Req :
        ("poi" \in ops[r] /\ "poiRejected" \notin ops[r] /\ pc[r] # "iso"
            /\ "iso" \notin ops[r]) =>
            /\ pc[r] = "done"
            /\ Status(r) # 200
            /\ HasField(Body(r), "error")

\* C10: every entry of the fast tier and of the durable tier holds the
\* categorized result of a lookup whose two providers answered.
C10_OnlySuccessfulLookupsCached ==
    \A q \in AllCells :
        /\ redisCache[q] # Null => Parse(redisCache[q][1].val).POIbyCategory = sortedPOI
        /\ mongo[q].first # Null => mongo[q].first[1].POIbyCategory = sortedPOI

\* C11: under any order and interleaving of requests, the durable tier holds
\* at most one document for each quantized coordinate.
C11_OneDurableEntryPerCell ==
    \A q \in AllCells : mongo[q].n <= 1

\* C12: every 200 body holds forCoordinates, requestedBy and POIbyCategory
\* and does not hold the quantized coordinate pair, whichever path served it.
C12_QuantizedNeverReturned ==
    \A r \in Req :
        (Done(r) /\ Status(r) = 200) =>
            /\ {"forCoordinates", "requestedBy", "POIbyCategory"} \subseteq DOMAIN Body(r)
            /\ ~HasField(Body(r), "generalCoordinates")

\* the rules of the categorization in their order
RuleOrder ==
    <<[label |-> "supermarket", tag |-> "commercial.supermarket"],
      [label |-> "pharmacy", tag |-> "healthcare.pharmacy"],
      [label |-> "restaurant", tag |-> "catering.restaurant"],
      [label |-> "fastfood", tag |-> "catering.fast_food"],
      [label |-> "hotel", tag |-> "accommodation.hotel"]>>

\* the label of the first rule whose tag is among tags, "none" without one
Classify(tags) ==
    LET hits == {k \in 1..Len(RuleOrder) :
                    \E i \in 1..Len(tags) : tags[i] = RuleOrder[k].tag}
    IN IF hits = {} THEN "none"
       ELSE RuleOrder[CHOOSE k \in hits : \A k2 \in hits : k <= k2].label

\* a categorized POI without the label the categorization appended
Unlabelled(poi) ==
    [poi EXCEPT !.properties.categories = SubSeq(@, 1, Len(@) - 1)]

LookupDone == filteredPOI # Null /\ cursor = Len(filteredPOI[1])

\* C13: no POI that pointInPolygon places outside the isochrone ring is in
\* any bucket, and when the lookup is through each bucket holds exactly the
\* provider's POIs that pointInPolygon places inside the ring and that
\* classify to the bucket, in the provider's order.
C13_BucketsHoldInsidePoisInOrder ==
    \A b \in DOMAIN poiBuckets :
        /\ \A i \in 1..Len(poiBuckets[b]) :
              pointInPolygon(poiBuckets[b][i].geometry.coordinates, polygon)
        /\ LookupDone =>
              [i \in 1..Len(poiBuckets[b]) |-> Unlabelled(poiBuckets[b][i])]
                = SelectSeq(features,
                     LAMBDA f : /\ pointInPolygon(f.geometry.coordinates, polygon)
                                /\ Classify(f.properties.categories) = b)

\* three supermarkets from the provider, two of them inside the ring: the
\* supermarket bucket holds the two
C13_Witness ==
    /\ LookupDone
    /\ Len(features) = 3
    /\ \A i \in 1..3 : Classify(features[i].properties.categories) = "supermarket"
    /\ Cardinality({i \in 1..3 :
                      pointInPolygon(features[i].geometry.coordinates, polygon)}) = 2
    /\ Len(poiBuckets.supermarket) = 2

\* C14: a call of sortByCategory appends the POI to the bucket of the first
\* rule (supermarket, pharmacy, restaurant, fastfood, hotel) whose tag is
\* among its raw tags, appends that one label to the POI's categories and
\* leaves the other buckets as they were; with none of the five tags it
\* leaves every bucket and the POI as they were.
C14_FirstRuleOnly ==
    [][cursor' = cursor + 1 =>
         LET poi == filteredPOI[1][cursor + 1]
             b == Classify(poi.properties.categories)
             labelled == [poi EXCEPT !.properties.categories = Append(@, b)]
         IN IF b = "none"
            THEN poiBuckets' = poiBuckets /\ filteredPOI'[1][cursor + 1] = poi
            ELSE /\ filteredPOI'[1][cursor + 1] = labelled
                 /\ poiBuckets'[b] = Append(poiBuckets[b], labelled)
                 /\ \A b2 \in DOMAIN poiBuckets \ {b} :
                       poiBuckets'[b2] = poiBuckets[b2]]_vars

\* a POI tagged pharmacy and supermarket, in that order, went to the
\* supermarket bucket alone, and one with none of the five tags to no bucket
C14_Witness ==
    /\ cursor = 2
    /\ filteredPOI[1][1].properties.categories
          = <<"healthcare.pharmacy", "commercial.supermarket", "supermarket">>
    /\ filteredPOI[1][2].properties.categories = <<"tourism.sights">>
    /\ poiBuckets = [EmptyBuckets EXCEPT !.supermarket = <<filteredPOI[1][1]>>]

\* the square of the point-in-polygon example
Square == <<<<0, 0>>, <<0, 4>>, <<4, 4>>, <<4, 0>>>>

\* pt lies outside the bounding box of poly
OutsideBox(pt, poly) ==
    \/ \A i \in 1..Len(poly) : pt[1] < poly[i][1]
    \/ \A i \in 1..Len(poly) : pt[1] > poly[i][1]
    \/ \A i \in 1..Len(poly) : pt[2] < poly[i][2]
    \/ \A i \in 1..Len(poly) : pt[2] > poly[i][2]

\* C15: pointInPolygon returns true for (2,2) and false for (5,5) against
\* the square (0,0),(0,4),(4,4),(4,0), and false for every point outside the
\* bounding box of the polygon (for every vertex sequence, the convex
\* polygons among them).
C15_SquareAndBoundingBox ==
    inside # Null =>
        /\ (polygon = Square /\ point = <<2, 2>>) => inside[1]
        /\ (polygon = Square /\ point = <<5, 5>>) => ~inside[1]
        /\ OutsideBox(point, polygon) => ~inside[1]

\* (5,5), outside the bounding box of the square, tested against it
C15_Witness ==
    /\ polygon = Square
    /\ point = <<5, 5>>
    /\ OutsideBox(point, polygon)
    /\ inside = Some(FALSE)

\* C16: whenever a client's quota counter key exists it carries the
\* one-hour expiry, under any interleaving of the check, the increment and
\* key expiry.
C16_QuotaKeyCarriesExpiry ==
    \A ip \in IPs :
        redisQuota[ip] # Null => redisQuota[ip][1].ex = QuotaTTL

\* the value of a client's counter, 0 without the key
CounterValue(ip) == IF redisQuota[ip] = Null THEN 0 ELSE redisQuota[ip][1].val

\* C17: when every request of a client that passed the admit check in the
\* running window has completed its increment in that window, and no store
\* operation has failed, the client's counter equals the number of those
\* requests, under any interleaving.
C17_CounterEqualsAdmitted ==
    \A ip \in IPs :
        (/\ failures = 0
         /\ InQuotaSection(ip) = {}
         /\ \A r \in Req : rq[r].ip = ip => pc[r] # "limitGet"
         /\ lookups[ip] = admitted[ip]) =>
            CounterValue(ip) = admitted[ip]

\* C18: for a ring given open (last vertex different from the first), the
\* result of pointInPolygon equals its result for the same ring with the
\* first vertex repeated at the end.
C18_RingClosedImplicitly ==
    (/\ inside # Null
     /\ insideClosed # Null
     /\ polygon[Len(polygon)] # polygon[1]) => inside = insideClosed

\* (2,2) is inside the square given open and inside the square given closed
C18_Witness ==
    /\ polygon = Square
    /\ point = <<2, 2>>
    /\ inside = Some(TRUE)
    /\ insideClosed = Some(TRUE)

\* C19: no request is left without a response (the handler never ends, on
\* any path, without having sent one).
C19_EveryRequestAnswered ==
    \A r \in Req : pc[r] # "hung"

=============================================================================
